---- MODULE Spec2Model ----
(***************************************************************************)
(* The tactical layer of glop: the level grid as a weighted graph          *)
(* (unitGraph), the Level controller (selection, PrepMove/DoMove,          *)
(* PrepAttack/DoAttack, Think, HandleEventGroup) and its highlight cache.  *)
(*                                                                         *)
(* Edge weights are float64 in the source and can be half-integers         *)
(* (float64(cost_a + cost_b) / 2).  The model keeps every weight and every *)
(* path cost DOUBLED, so that they stay integers: a name ending in 2 is    *)
(* twice the source's value.                                               *)
(***************************************************************************)
EXTENDS Integers, Sequences, FiniteSets, TLC

\* ------------------------------------------------------------------ bounds
GridDx == 3
GridDy == 3
MaxAP == 2
MaxHealth == 2
MaxDamage == 1
NumNodes == 3
MaxDepth == 4

\* ------------------------------------------------------- static vocabulary
Terrain == {"Grass", "Brush", "Water", "Dirt"}

None == "None"
Reachable == "Reachable"
Attackable == "Attackable"
MouseOver == "MouseOver"
Highlight == {None, Reachable, Attackable, MouseOver}

NoCommand == "NoCommand"
Move == "Move"
Attack == "Attack"
Command == {NoCommand, Move, Attack}

Hit == "Hit"
Miss == "Miss"

Xs == 0 .. (GridDx - 1)
Ys == 0 .. (GridDy - 1)
NumVertex == GridDx * GridDy
Vertices == 0 .. (NumVertex - 1)
Cells == Xs \X Ys

Ents == {1, 2}
nil == 0

\* entity.Base of each entity: Move_cost (a map[Terrain]int: a terrain outside
\* the DOMAIN has no cost for the mover) and Weapons[0] with its Cost() and
\* Reach().  A land unit with a short weapon and an amphibious unit with a
\* longer one.
Bases ==
  (1 :> [move_cost |-> ("Grass" :> 1 @@ "Dirt" :> 1 @@ "Brush" :> 2),
         weapon |-> [cost |-> 1, reach |-> 1]]) @@
  (2 :> [move_cost |-> ("Grass" :> 1 @@ "Brush" :> 3 @@ "Water" :> 2),
         weapon |-> [cost |-> 2, reach |-> 3]])

VARIABLES
  grid,        \* grid[x][y].Terrain, set once at load
  highlight,   \* grid[x][y].highlight
  cached,      \* Level.cached
  entities,    \* Level.entities: pos, AP, Health, path and the Base data
  selected,    \* Level.selected (nil when nothing is selected)
  command,     \* Level.command
  reachable,   \* Level.reachable
  in_range,    \* Level.in_range
  query,       \* the last call of Adjacent: the mover, the vertex, the result
  action,      \* the ActionBasicAttack: Ent, Cost, Power, Range, Melee, targets, mark
  nodes        \* Focus.nodes of the gui

vars == <<grid, highlight, cached, entities, selected, command, reachable,
          in_range, query, action, nodes>>

\* ------------------------------------------------------------ small helpers
Abs(n) == IF n < 0 THEN -n ELSE n

Max(a, b) == IF a > b THEN a ELSE b

Range(s) == {s[i] : i \in 1 .. Len(s)}

maxNormi(x, y, x2, y2) ==
  LET dx == Abs(x2 - x)
      dy == Abs(y2 - y)
  IN  IF dx > dy THEN dx ELSE dy

fromVertex(v) == <<v % GridDx, v \div GridDx>>

toVertex(x, y) == x + y * GridDx

\* ---------------------------------------------------------------- unitGraph
\* costToMove without the corners' exclusion and without the max: a diagonal
\* step costs what its destination costs.
costToMove2_DestOnly(mc, src, dst) ==
  LET x2 == fromVertex(dst)[1]
      y2 == fromVertex(dst)[2]
  IN  IF grid[x2][y2] \notin DOMAIN mc THEN -2 ELSE 2 * mc[grid[x2][y2]]

\* costToMove returns -1 for "no edge"; doubled, that is -2.
costToMove2(mc, src, dst) ==
  LET x  == fromVertex(src)[1]
      y  == fromVertex(src)[2]
      x2 == fromVertex(dst)[1]
      y2 == fromVertex(dst)[2]
  IN  IF grid[x2][y2] \notin DOMAIN mc THEN -2
      ELSE IF x = x2 \/ y = y2 THEN 2 * mc[grid[x2][y2]]
      ELSE IF grid[x][y2] \notin DOMAIN mc THEN -2
      ELSE IF grid[x2][y] \notin DOMAIN mc THEN -2
      ELSE Max(mc[grid[x][y2]] + mc[grid[x2][y]], 2 * mc[grid[x2][y2]])

\* The pairs (dx, dy) in the order the two nested loops of Adjacent visit them.
AdjacentOffsets ==
  << <<-1, -1>>, <<-1, 0>>, <<-1, 1>>, <<0, -1>>,
     <<0, 1>>, <<1, -1>>, <<1, 0>>, <<1, 1>> >>

\* The occupancy loop starting one entity late.
occupied_SkipFirst(x, y) ==
  \E i \in Ents \ {1} : entities[i].pos[1] = x /\ entities[i].pos[2] = y

occupied(x, y) ==
  \E i \in Ents : entities[i].pos[1] = x /\ entities[i].pos[2] = y

\* The neighbours Adjacent collects in one of its two pairs of arrays (the
\* orthogonal ones for diag = FALSE, adj_diag/weight_diag for diag = TRUE),
\* from the k-th pair of offsets on: pairs <<vertex, doubled weight>>.
RECURSIVE adjacentScan(_, _, _, _, _)
adjacentScan(mc, x, y, k, diag) ==
  IF k > Len(AdjacentOffsets) THEN <<>>
  ELSE LET dx   == AdjacentOffsets[k][1]
           dy   == AdjacentOffsets[k][2]
           cost == costToMove2(mc, toVertex(x, y), toVertex(x + dx, y + dy))
           rest == adjacentScan(mc, x, y, k + 1, diag)
       IN  IF (dx # 0 /\ dy # 0) # diag THEN rest
           ELSE IF x + dx < 0 \/ x + dx >= GridDx THEN rest
           ELSE IF y + dy < 0 \/ y + dy >= GridDy THEN rest
           ELSE IF occupied(x + dx, y + dy) THEN rest
           ELSE IF cost < 0 THEN rest
           ELSE << <<toVertex(x + dx, y + dy), cost>> >> \o rest

\* Adjacent appending the orthogonal neighbours to the diagonal ones.
Adjacent_DiagFirst(mc, v) ==
  adjacentScan(mc, fromVertex(v)[1], fromVertex(v)[2], 1, TRUE) \o
  adjacentScan(mc, fromVertex(v)[1], fromVertex(v)[2], 1, FALSE)

\* Adjacent(v), as a sequence of pairs <<vertex, doubled weight>>.
Adjacent(mc, v) ==
  adjacentScan(mc, fromVertex(v)[1], fromVertex(v)[2], 1, FALSE) \o
  adjacentScan(mc, fromVertex(v)[1], fromVertex(v)[2], 1, TRUE)

\* ------------------------------------------------- glop/util/algorithm
\* The two graph searches the Level calls.  Both are the classic
\* non-negative-weight search over Adjacent: a vertex is finalized when it is
\* the cheapest vertex not yet finalized (the lowest vertex number among
\* equals), and finalizing it relaxes its neighbours in Adjacent's order.
MoveCosts ==
  UNION {{Bases[i].move_cost[t] : t \in DOMAIN Bases[i].move_cost} : i \in Ents}

MaxMoveCost ==
  CHOOSE m \in MoveCosts : \A n \in MoveCosts : n <= m

Infinity2 == 2 * MaxMoveCost * NumVertex + 1

\* The search state: tentative doubled cost and predecessor of vertex v at
\* index v + 1, the finalized vertices, and these in the order of finalizing.
searchInit(src) ==
  [dist |-> SubSeq([i \in 1 .. NumVertex |-> IF i = src + 1 THEN 0 ELSE Infinity2],
                   1, NumVertex),
   prev |-> SubSeq([i \in 1 .. NumVertex |-> -1], 1, NumVertex),
   done |-> {},
   order |-> <<>>]

\* The cheapest vertex not yet finalized among v, v + 1, ..., given the best
\* one before v (-1 when there is none).
RECURSIVE searchMin(_, _, _)
searchMin(S, v, best) ==
  IF v >= NumVertex THEN best
  ELSE IF v \notin S.done /\ S.dist[v + 1] < Infinity2
            /\ (best = -1 \/ S.dist[v + 1] < S.dist[best + 1])
         THEN searchMin(S, v + 1, v)
         ELSE searchMin(S, v + 1, best)

\* The cheapest vertex not yet finalized, or -1 when none is left in reach.
searchNext(S) == searchMin(S, 0, -1)

\* Relax the edges nb out of u, in order.
RECURSIVE searchRelax(_, _, _)
searchRelax(S, u, nb) ==
  IF nb = <<>> THEN S
  ELSE LET v == Head(nb)[1]
           d == S.dist[u + 1] + Head(nb)[2]
       IN  searchRelax(IF v \notin S.done /\ d < S.dist[v + 1]
                         THEN [S EXCEPT !.dist[v + 1] = d, !.prev[v + 1] = u]
                         ELSE S,
                       u, Tail(nb))

\* Finalize u and relax its edges.
searchVisit(mc, S, u) ==
  searchRelax([S EXCEPT !.done = @ \cup {u}], u, Adjacent(mc, u))

\* The whole search from src: vertices are finalized, cheapest first, until
\* none is left in reach; order lists them as they are finalized.
RECURSIVE searchLoop(_, _)
searchLoop(mc, S) ==
  LET u == searchNext(S)
  IN  IF u = -1 THEN S
      ELSE searchLoop(mc, [searchVisit(mc, S, u) EXCEPT !.order = Append(@, u)])

\* graph := &unitGraph{l, l.selected.Base.Move_cost}, with the search that
\* ReachableWithinLimit and Dijkstra run on it from the selected entity's
\* cell.  The two differ only in where they stop (at the limit, at the
\* target), so one search serves both; an operation is handed the graph of
\* the state it starts in.
unitGraph(L) ==
  IF L.selected = nil THEN searchInit(0)
  ELSE LET s == L.entities[L.selected]
       IN  searchLoop(s.move_cost, searchInit(toVertex(s.pos[1], s.pos[2])))

RECURSIVE reachablePrefix(_, _, _)
reachablePrefix(graph, order, limit2) ==
  IF order = <<>> THEN <<>>
  ELSE IF graph.dist[Head(order) + 1] > limit2 THEN <<>>
  ELSE <<Head(order)>> \o reachablePrefix(graph, Tail(order), limit2)

\* ReachableWithinLimit(graph, []int{src}, limit): the vertices whose cost
\* from src is at most limit, each listed when it is finalized.
ReachableWithinLimit(graph, limit2) ==
  reachablePrefix(graph, graph.order, limit2)

RECURSIVE pathTo(_, _, _)
pathTo(graph, src, v) ==
  IF v = src THEN <<src>> ELSE Append(pathTo(graph, src, graph.prev[v + 1]), v)

\* Dijkstra(graph, []int{src}, []int{dst}): the doubled cost and the vertices
\* of a cheapest path, src first; an empty path when dst is out of reach.
Dijkstra(graph, src, dst) ==
  IF dst \notin Vertices \/ graph.dist[IF dst \in Vertices THEN dst + 1 ELSE 1] >= Infinity2
    THEN [cost2 |-> Infinity2, path |-> <<>>]
    ELSE [cost2 |-> graph.dist[dst + 1], path |-> pathTo(graph, src, dst)]

\* -------------------------------------------------------------------- Level
\* The mutable part of a Level, as one record, so that an operation that
\* calls another (HandleEventGroup calls DoMove and DoAttack) composes them.
\* sent collects, in order, the sprite commands (entity.s.Command) that the
\* operation sends: pairs <<entity, command>>; ret is what the operation
\* returns, for those that return something.
Cur ==
  [highlight |-> highlight, cached |-> cached, entities |-> entities,
   selected |-> selected, command |-> command, reachable |-> reachable,
   in_range |-> in_range, sent |-> <<>>, action |-> action, ret |-> "none"]

NoHighlight == [x \in Xs |-> [y \in Ys |-> None]]

clearCache(L) ==
  IF ~L.cached THEN L
  ELSE [L EXCEPT !.highlight = NoHighlight, !.cached = FALSE]

RECURSIVE paint(_, _, _)
paint(h, vs, tag) ==
  IF vs = <<>> THEN h
  ELSE LET x == fromVertex(Head(vs))[1]
           y == fromVertex(Head(vs))[2]
       IN  paint([h EXCEPT ![x][y] = tag], Tail(vs), tag)

maintainCommand(L) ==
  CASE L.command = Move   -> [L EXCEPT !.highlight = paint(L.highlight, L.reachable, Reachable)]
    [] L.command = Attack -> [L EXCEPT !.highlight = paint(L.highlight, L.in_range, Attackable)]
    [] OTHER              -> L

\* The in_range list PrepAttack builds, over the entities from index i on.
RECURSIVE inRangeFrom(_, _)
inRangeFrom(L, i) ==
  IF i \notin Ents THEN <<>>
  ELSE LET e    == L.entities[i]
           s    == L.entities[L.selected]
           dist == maxNormi(e.pos[1], e.pos[2], s.pos[1], s.pos[2])
       IN  IF i = L.selected \/ dist > s.weapon.reach
             THEN inRangeFrom(L, i + 1)
             ELSE <<toVertex(e.pos[1], e.pos[2])>> \o inRangeFrom(L, i + 1)

PrepAttack(L) ==
  IF L.selected = nil THEN L
  ELSE IF L.entities[L.selected].weapon.cost > L.entities[L.selected].AP THEN L
  ELSE LET L1 == [L EXCEPT !.in_range = inRangeFrom(L, 1)]
       IN  IF Len(L1.in_range) = 0 THEN L1
           ELSE clearCache([L1 EXCEPT !.command = Attack])

\* DoAttack without the test of the weapon's cost against the AP.
DoAttack_NoCostCheck(L, target, res) ==
  IF L.selected = nil THEN L
  ELSE LET weapon == L.entities[L.selected].weapon
       IN
         LET L1   == [L EXCEPT !.entities[L.selected].AP = @ - weapon.cost]
             t    == L1.entities[target]
             s    == L1.entities[L1.selected]
             dist == maxNormi(t.pos[1], t.pos[2], s.pos[1], s.pos[2])
             L2   == [L1 EXCEPT !.sent =
                        @ \o << <<L1.selected, IF weapon.reach > 2 THEN "ranged" ELSE "melee">>,
                                <<target, "defend">> >>]
             L3   == IF res.Connect = Hit
                       THEN LET L3a == [L2 EXCEPT !.entities[target].Health = @ - res.Piercing]
                            IN  [L3a EXCEPT !.sent =
                                   Append(@, <<target,
                                               IF L3a.entities[target].Health <= 0
                                                 THEN "killed" ELSE "damaged">>)]
                       ELSE [L2 EXCEPT !.sent = Append(@, <<target, "undamaged">>)]
         IN  IF dist > weapon.reach THEN L1
             ELSE [clearCache(L3) EXCEPT !.command = NoCommand]

\* res is what weapon.Damage(l.selected, target) returns: res.Connect and
\* res.Damage.Piercing.
DoAttack(L, target, res) ==
  IF L.selected = nil THEN L
  ELSE LET weapon == L.entities[L.selected].weapon
       IN
       IF weapon.cost > L.entities[L.selected].AP THEN L
       ELSE
         LET L1   == [L EXCEPT !.entities[L.selected].AP = @ - weapon.cost]
             t    == L1.entities[target]
             s    == L1.entities[L1.selected]
             dist == maxNormi(t.pos[1], t.pos[2], s.pos[1], s.pos[2])
             L2   == [L1 EXCEPT !.sent =
                        @ \o << <<L1.selected, IF weapon.reach > 2 THEN "ranged" ELSE "melee">>,
                                <<target, "defend">> >>]
             L3   == IF res.Connect = Hit
                       THEN LET L3a == [L2 EXCEPT !.entities[target].Health = @ - res.Piercing]
                            IN  [L3a EXCEPT !.sent =
                                   Append(@, <<target,
                                               IF L3a.entities[target].Health <= 0
                                                 THEN "killed" ELSE "damaged">>)]
                       ELSE [L2 EXCEPT !.sent = Append(@, <<target, "undamaged">>)]
         IN  IF dist > weapon.reach THEN L1
             ELSE [clearCache(L3) EXCEPT !.command = NoCommand]

\* PrepMove with the limit int(AP) - 1 (cells of cost AP left out).
PrepMove_ShortLimit(L, graph) ==
  IF L.selected = nil THEN L
  ELSE LET s  == L.entities[L.selected]
           L1 == [L EXCEPT !.reachable = ReachableWithinLimit(graph, 2 * (s.AP - 1))]
       IN  IF Len(L1.reachable) = 0 THEN L1
           ELSE clearCache([L1 EXCEPT !.command = Move])

PrepMove(L, graph) ==
  IF L.selected = nil THEN L
  ELSE LET s  == L.entities[L.selected]
           L1 == [L EXCEPT !.reachable = ReachableWithinLimit(graph, 2 * s.AP)]
       IN  IF Len(L1.reachable) = 0 THEN L1
           ELSE clearCache([L1 EXCEPT !.command = Move])

\* DoMove spending the path's cost when the move is committed.
DoMove_SpendAP(L, graph, click_x, click_y) ==
  IF L.selected = nil THEN L
  ELSE LET s     == L.entities[L.selected]
           start == toVertex(s.pos[1], s.pos[2])
           end   == toVertex(click_x, click_y)
           r     == Dijkstra(graph, start, end)
       IN  IF Len(r.path) = 0 \/ (r.cost2 \div 2) > s.AP THEN L
           ELSE LET path == Tail(r.path)
                    L1   == [L EXCEPT !.entities[L.selected].path =
                                        [i \in 1 .. Len(path) |-> fromVertex(path[i])],
                                      !.entities[L.selected].AP = @ - (r.cost2 \div 2),
                                      !.reachable = <<>>]
                IN  [clearCache(L1) EXCEPT !.command = NoCommand]

DoMove(L, graph, click_x, click_y) ==
  IF L.selected = nil THEN L
  ELSE LET s     == L.entities[L.selected]
           start == toVertex(s.pos[1], s.pos[2])
           end   == toVertex(click_x, click_y)
           r     == Dijkstra(graph, start, end)
       IN  IF Len(r.path) = 0 \/ (r.cost2 \div 2) > s.AP THEN L
           ELSE LET path == Tail(r.path)
                    L1   == [L EXCEPT !.entities[L.selected].path =
                                        [i \in 1 .. Len(path) |-> fromVertex(path[i])],
                                      !.reachable = <<>>]
                IN  [clearCache(L1) EXCEPT !.command = NoCommand]

\* entity.Think(dt): the per-tick stepper.  With dt = 0 no entity reaches a
\* new cell.  Otherwise an entity with a queued path enters the next cell of
\* the queue and pays that step's cost (truncated to an integer, as AP is an
\* integer); an entity that cannot pay stops and drops its queue.
entityThink(e, dt) ==
  IF dt = 0 \/ Len(e.path) = 0 THEN e
  ELSE LET next == Head(e.path)
           c2   == costToMove2(e.move_cost, toVertex(e.pos[1], e.pos[2]),
                               toVertex(next[1], next[2]))
           c    == c2 \div 2
       IN  IF c2 < 0 \/ c > e.AP THEN [e EXCEPT !.path = <<>>]
           ELSE [e EXCEPT !.pos = next, !.path = Tail(e.path), !.AP = @ - c]

\* The first loop of Think, from entity i on.
RECURSIVE thinkFrom(_, _, _)
thinkFrom(L, i, dt) ==
  IF i \notin Ents THEN L
  ELSE LET e  == L.entities[i]
           e1 == entityThink(e, dt)
           L1 == [L EXCEPT !.entities[i] = e1]
       IN  thinkFrom(IF e1.pos # e.pos THEN clearCache(L1) ELSE L1, i + 1, dt)

\* Think without its last statement, cached = true.
Think_NotCached(L, dt) == maintainCommand(thinkFrom(L, 1, dt))

\* Think(dt).  The highlights of the cell under the cursor (MouseOver) and of
\* the selected entity's cell (Reachable) are assigned to `cell`, a copy of
\* the grid's CellData value handed to the renderer, so they change no
\* stored highlight.
Think(L, dt) ==
  [maintainCommand(thinkFrom(L, 1, dt)) EXCEPT !.cached = TRUE]

\* Board coordinates of a click are kept doubled as well (bx2 = 2 * bx), so
\* that the centre of the cell of an entity, pos + 0.5, is 2 * pos + 1.
\* int(bx) truncates towards zero.
truncHalf(n2) == IF n2 >= 0 THEN n2 \div 2 ELSE -((-n2) \div 2)

clickDist2(e, bx2, by2) ==
  Max(Abs(bx2 - (2 * e.pos[1] + 1)), Abs(by2 - (2 * e.pos[2] + 1)))

\* The entity the loop of HandleEventGroup ends with: the first of those
\* nearest to the click.
nearestEnt(L, bx2, by2) ==
  CHOOSE i \in Ents :
    \A j \in Ents :
      \/ clickDist2(L.entities[i], bx2, by2) < clickDist2(L.entities[j], bx2, by2)
      \/ clickDist2(L.entities[i], bx2, by2) = clickDist2(L.entities[j], bx2, by2) /\ i <= j

\* HandleEventGroup that enters the Move command as it selects an entity.
HandleEventGroup_SelectToMove(L, graph, bx2, by2, res) ==
  LET ent   == nearestEnt(L, bx2, by2)
      dist2 == clickDist2(L.entities[ent], bx2, by2)
  IN  IF L.selected = nil /\ dist2 < 2 * 3
        THEN [clearCache([L EXCEPT !.selected = ent]) EXCEPT !.command = Move]
        ELSE
          LET target == IF L.selected # nil /\ dist2 < 1 THEN ent ELSE nil
              L1 == CASE L.command = Move /\ target = nil ->
                           DoMove(L, graph, truncHalf(bx2), truncHalf(by2))
                      [] L.command = Attack /\ target # nil ->
                           DoAttack(L, target, res)
                      [] OTHER -> L
              target1 == IF L.command = Attack THEN nil ELSE target
              L2 == IF target1 # nil THEN [L1 EXCEPT !.selected = target1] ELSE L1
          IN  [clearCache(L2) EXCEPT !.command = NoCommand]

\* HandleEventGroup for an event group that holds a press of the mouse button
\* at board position (bx2 / 2, by2 / 2).
HandleEventGroup(L, graph, bx2, by2, res) ==
  LET ent   == nearestEnt(L, bx2, by2)
      dist2 == clickDist2(L.entities[ent], bx2, by2)
  IN  IF L.selected = nil /\ dist2 < 2 * 3
        THEN [clearCache([L EXCEPT !.selected = ent]) EXCEPT !.command = NoCommand]
        ELSE
          LET target == IF L.selected # nil /\ dist2 < 1 THEN ent ELSE nil
              L1 == CASE L.command = Move /\ target = nil ->
                           DoMove(L, graph, truncHalf(bx2), truncHalf(by2))
                      [] L.command = Attack /\ target # nil ->
                           DoAttack(L, target, res)
                      [] OTHER -> L
              target1 == IF L.command = Attack THEN nil ELSE target
              L2 == IF target1 # nil THEN [L1 EXCEPT !.selected = target1] ELSE L1
          IN  [clearCache(L2) EXCEPT !.command = NoCommand]

\* -------------------------------------------------------- ActionBasicAttack
\* What the action's operations return.
StandardAction == "StandardAction"
NoAction == "NoAction"
Complete == "Complete"

\* Entity.CurAttack() and Entity.CurDefense() of each entity.
Stats ==
  (1 :> [attack |-> 1, defense |-> 3]) @@
  (2 :> [attack |-> 0, defense |-> 2])

\* The basic attacks: a melee attack of the first entity and a ranged attack
\* of the second, which cannot get through the first entity's defense.
BasicAttacks ==
  { [Ent |-> 1, Cost |-> 1, Power |-> 2, Range |-> 1, Melee |-> 1],
    [Ent |-> 2, Cost |-> 2, Power |-> 0, Range |-> 2, Melee |-> 0] }

\* A fresh action of configuration c: no targets, no mark.
NewAction(c) ==
  [Ent |-> c.Ent, Cost |-> c.Cost, Power |-> c.Power, Range |-> c.Range,
   Melee |-> c.Melee, targets |-> <<>>, mark |-> nil]

\* Dice("5d5"): the sum of five dice of five sides.
DiceSums == 5 .. 25

\* The offset without its shift by 4.
diceOffset_NoShift(sum) == (sum - 2) \div 3

\* (Dice("5d5") - 2) / 3 - 4
diceOffset(sum) == ((sum - 2) \div 3) - 4

\* getEntsWithinRange(ent, range, level), over the entities from index i on:
\* the other entities at a distance of at most range.
RECURSIVE getEntsWithinRange(_, _, _, _)
getEntsWithinRange(L, ent, range, i) ==
  IF i \notin Ents THEN <<>>
  ELSE LET e == L.entities[i]
           s == L.entities[ent]
       IN  IF i = ent \/ maxNormi(e.pos[1], e.pos[2], s.pos[1], s.pos[2]) > range
             THEN getEntsWithinRange(L, ent, range, i + 1)
             ELSE <<i>> \o getEntsWithinRange(L, ent, range, i + 1)

\* highlight |= tag.  The highlights are flags here: a cell that has another
\* highlight already has both afterwards.
orHighlight(h, tag) ==
  IF h = None \/ h = tag THEN tag ELSE "Reachable|Attackable"

\* Level.clearCache(tag): the highlight tag is taken off every cell.
clearHighlight(h, tag) ==
  [x \in Xs |-> [y \in Ys |->
     IF h[x][y] = tag THEN None
     ELSE IF h[x][y] = "Reachable|Attackable" THEN Reachable
     ELSE h[x][y]]]

\* The loop of Prep that marks the cells of the targets ts.
RECURSIVE markTargets(_, _, _)
markTargets(h, L, ts) ==
  IF ts = <<>> THEN h
  ELSE LET pos == L.entities[Head(ts)].pos
       IN  markTargets([h EXCEPT ![pos[1]][pos[2]] = orHighlight(@, Attackable)],
                       L, Tail(ts))

\* Prep without the test of the AP.
Prep_NoApCheck(L) ==
  LET a  == L.action
      ts == getEntsWithinRange(L, a.Ent, a.Range, 1)
      L1 == [L EXCEPT !.action.targets = ts]
  IN  IF Len(ts) = 0 THEN [L1 EXCEPT !.ret = FALSE]
      ELSE [L1 EXCEPT !.highlight = markTargets(L.highlight, L, ts), !.ret = TRUE]

Prep(L) ==
  LET a == L.action
  IN  IF L.entities[a.Ent].AP < a.Cost THEN [L EXCEPT !.ret = FALSE]
      ELSE LET ts == getEntsWithinRange(L, a.Ent, a.Range, 1)
               L1 == [L EXCEPT !.action.targets = ts]
           IN  IF Len(ts) = 0 THEN [L1 EXCEPT !.ret = FALSE]
               ELSE [L1 EXCEPT !.highlight = markTargets(L.highlight, L, ts),
                               !.ret = TRUE]

\* Cancel that leaves the highlights alone.
Cancel_KeepHighlight(L) ==
  [L EXCEPT !.action.mark = nil, !.action.targets = <<>>]

Cancel(L) ==
  [L EXCEPT !.action.mark = nil,
            !.action.targets = <<>>,
            !.highlight = clearHighlight(L.highlight, Attackable)]

\* The loop of MouseClick over the targets ts; the click is at board
\* position (bx2 / 2, by2 / 2).
RECURSIVE clickTargets(_, _, _, _)
clickTargets(L, ts, bx2, by2) ==
  IF ts = <<>> THEN [L EXCEPT !.ret = NoAction]
  ELSE IF truncHalf(bx2) = L.entities[Head(ts)].pos[1]
            /\ truncHalf(by2) = L.entities[Head(ts)].pos[2]
         THEN [L EXCEPT !.action.mark = Head(ts), !.ret = StandardAction]
         ELSE clickTargets(L, Tail(ts), bx2, by2)

\* MouseClick taking the first target wherever the click is.
MouseClick_FirstTarget(L, bx2, by2) ==
  IF L.action.targets = <<>> THEN [L EXCEPT !.ret = NoAction]
  ELSE [L EXCEPT !.action.mark = Head(L.action.targets), !.ret = StandardAction]

MouseClick(L, bx2, by2) == clickTargets(L, L.action.targets, bx2, by2)

\* aiDoAttack without the test of the Range.
aiDoAttack_NoRangeCheck(L, mark) ==
  IF L.entities[L.action.Ent].AP < L.action.Cost THEN [L EXCEPT !.ret = FALSE]
  ELSE [L EXCEPT !.action.mark = mark, !.ret = TRUE]

aiDoAttack(L, mark) ==
  LET a == L.action
      m == L.entities[mark]
      e == L.entities[a.Ent]
  IN  IF a.Range < maxNormi(m.pos[1], m.pos[2], e.pos[1], e.pos[2])
        THEN [L EXCEPT !.ret = FALSE]
      ELSE IF e.AP < a.Cost THEN [L EXCEPT !.ret = FALSE]
      ELSE [L EXCEPT !.action.mark = mark, !.ret = TRUE]

\* Maintain without the final Cancel: the mark stays.
Maintain_KeepMark(L, sum) ==
  LET a == L.action
  IN  IF a.mark = nil \/ L.entities[a.Ent].AP < a.Cost
        THEN [Cancel(L) EXCEPT !.ret = Complete]
        ELSE
          LET L1      == [L EXCEPT !.entities[a.Ent].AP = @ - a.Cost]
              L2      == [L1 EXCEPT !.sent =
                            Append(@, <<a.Ent, IF a.Melee # 0 THEN "melee" ELSE "ranged">>)]
              attack  == a.Power + Stats[a.Ent].attack + diceOffset(sum)
              defense == Stats[a.mark].defense
              L3      == [L2 EXCEPT !.sent = Append(@, <<a.mark, "defend">>)]
              L4      == IF attack <= defense
                           THEN [L3 EXCEPT !.sent = Append(@, <<a.mark, "undamaged">>)]
                           ELSE LET L4a == [L3 EXCEPT !.entities[a.mark].Health =
                                                        @ - (attack - defense)]
                                IN  [L4a EXCEPT !.sent =
                                       Append(@, <<a.mark,
                                                   IF L4a.entities[a.mark].Health <= 0
                                                     THEN "killed" ELSE "damaged">>)]
          IN  [L4 EXCEPT !.ret = Complete]

\* Maintain without the test of the AP.
Maintain_NoApCheck(L, sum) ==
  LET a == L.action
  IN  IF a.mark = nil
        THEN [Cancel(L) EXCEPT !.ret = Complete]
        ELSE
          LET L1      == [L EXCEPT !.entities[a.Ent].AP = @ - a.Cost]
              L2      == [L1 EXCEPT !.sent =
                            Append(@, <<a.Ent, IF a.Melee # 0 THEN "melee" ELSE "ranged">>)]
              attack  == a.Power + Stats[a.Ent].attack + diceOffset(sum)
              defense == Stats[a.mark].defense
              L3      == [L2 EXCEPT !.sent = Append(@, <<a.mark, "defend">>)]
              L4      == IF attack <= defense
                           THEN [L3 EXCEPT !.sent = Append(@, <<a.mark, "undamaged">>)]
                           ELSE LET L4a == [L3 EXCEPT !.entities[a.mark].Health =
                                                        @ - (attack - defense)]
                                IN  [L4a EXCEPT !.sent =
                                       Append(@, <<a.mark,
                                                   IF L4a.entities[a.mark].Health <= 0
                                                     THEN "killed" ELSE "damaged">>)]
          IN  [Cancel(L4) EXCEPT !.ret = Complete]

\* Maintain that takes a target for killed only below health 0.
Maintain_KilledBelowZero(L, sum) ==
  LET a == L.action
  IN  IF a.mark = nil \/ L.entities[a.Ent].AP < a.Cost
        THEN [Cancel(L) EXCEPT !.ret = Complete]
        ELSE
          LET L1      == [L EXCEPT !.entities[a.Ent].AP = @ - a.Cost]
              L2      == [L1 EXCEPT !.sent =
                            Append(@, <<a.Ent, IF a.Melee # 0 THEN "melee" ELSE "ranged">>)]
              attack  == a.Power + Stats[a.Ent].attack + diceOffset(sum)
              defense == Stats[a.mark].defense
              L3      == [L2 EXCEPT !.sent = Append(@, <<a.mark, "defend">>)]
              L4      == IF attack <= defense
                           THEN [L3 EXCEPT !.sent = Append(@, <<a.mark, "undamaged">>)]
                           ELSE LET L4a == [L3 EXCEPT !.entities[a.mark].Health =
                                                        @ - (attack - defense)]
                                IN  [L4a EXCEPT !.sent =
                                       Append(@, <<a.mark,
                                                   IF L4a.entities[a.mark].Health < 0
                                                     THEN "killed" ELSE "damaged">>)]
          IN  [Cancel(L4) EXCEPT !.ret = Complete]

\* Maintain(dt) when Dice("5d5") rolls sum.
Maintain(L, sum) ==
  LET a == L.action
  IN  IF a.mark = nil \/ L.entities[a.Ent].AP < a.Cost
        THEN [Cancel(L) EXCEPT !.ret = Complete]
        ELSE
          LET L1      == [L EXCEPT !.entities[a.Ent].AP = @ - a.Cost]
              L2      == [L1 EXCEPT !.sent =
                            Append(@, <<a.Ent, IF a.Melee # 0 THEN "melee" ELSE "ranged">>)]
              attack  == a.Power + Stats[a.Ent].attack + diceOffset(sum)
              defense == Stats[a.mark].defense
              L3      == [L2 EXCEPT !.sent = Append(@, <<a.mark, "defend">>)]
              L4      == IF attack <= defense
                           THEN [L3 EXCEPT !.sent = Append(@, <<a.mark, "undamaged">>)]
                           ELSE LET L4a == [L3 EXCEPT !.entities[a.mark].Health =
                                                        @ - (attack - defense)]
                                IN  [L4a EXCEPT !.sent =
                                       Append(@, <<a.mark,
                                                   IF L4a.entities[a.mark].Health <= 0
                                                     THEN "killed" ELSE "damaged">>)]
          IN  [Cancel(L4) EXCEPT !.ret = Complete]

\* -------------------------------------------------------------- gui.Focus
\* The nodes of the widget tree: the root 1 and its children 2 .. NumNodes.
Nodes == 1 .. NumNodes

top(f) == IF Len(f) = 0 THEN nil ELSE f[1]

Take(f, n) ==
  LET g == IF Len(f) = 0 THEN Append(f, nil) ELSE f
  IN  [g EXCEPT ![Len(g)] = n]

Push(f, n) == Append(f, n)

\* Pop of a stack that is not empty (Pop of an empty one panics).
Pop(f) == SubSeq(f, 1, Len(f) - 1)

\* The loop of Node.think over the children of the root, from child i on;
\* wants[n] is what the widget of node n returns from Think.
RECURSIVE thinkChildren(_, _, _)
thinkChildren(f, i, wants) ==
  IF i \notin Nodes THEN f
  ELSE thinkChildren(IF wants[i] THEN Take(f, i) ELSE f, i + 1, wants)

\* Node.think of the root: the children first, then the root itself.
think(f, wants) ==
  LET g == thinkChildren(f, 2, wants)
  IN  IF wants[1] THEN Take(g, 1) ELSE g

\* ------------------------------------------------------------ initial state
\* Levels: the terrain of cell (x, y) follows a pattern over three terrains;
\* with every a, b, c, k the patterns give every combination of terrains to
\* any cell, its two corners and its diagonal neighbour.
TerrainOf(n) == <<"Grass", "Brush", "Water">>[(n % 3) + 1]

GridPattern(a, b, c, k) ==
  [x \in Xs |-> [y \in Ys |-> TerrainOf(a * x + b * y + c * x * y + k)]]

AllGrids == {GridPattern(a, b, c, k) : a \in 0 .. 2, b \in 0 .. 2, c \in 0 .. 2, k \in 0 .. 2}

\* The level played: a row of grass, a row of brush, a row of water, ...
LevelGrids == {GridPattern(0, 1, 0, 0)}

\* The levels moves are planned on: all grass, and one with brush and water.
MoveGrids == {GridPattern(0, 0, 0, 0), GridPattern(0, 1, 2, 0)}

NoQuery == [mover |-> nil, v |-> -1, adj |-> <<>>, weight2 |-> <<>>]

InitLevel(grids, starts, aps, sels) ==
  /\ grid \in grids
  /\ \E pos \in starts :
       /\ \A i, j \in Ents : i # j => pos[i] # pos[j]
       /\ \A i \in Ents : grid[pos[i][1]][pos[i][2]] \in DOMAIN Bases[i].move_cost
       /\ \E ap \in aps :
            entities = [i \in Ents |->
                          [pos |-> pos[i], AP |-> ap, Health |-> MaxHealth, path |-> <<>>,
                           move_cost |-> Bases[i].move_cost, weapon |-> Bases[i].weapon]]
  /\ highlight = NoHighlight
  /\ cached = FALSE
  /\ selected \in sels
  /\ command = NoCommand
  /\ reachable = <<>>
  /\ in_range = <<>>
  /\ nodes = <<>>
  /\ query = NoQuery

\* The action at hand is a fresh melee attack of the first entity.
InitWith(grids, starts, aps, sels) ==
  /\ InitLevel(grids, starts, aps, sels)
  /\ action = NewAction(CHOOSE c \in BasicAttacks : c.Ent = 1)

\* A game starts with the entities side by side in the row y = 0, every
\* entity with its full action points and health and nothing selected.
LevelStarts == {pos \in [Ents -> Cells] : pos[1] = <<1, 0>> /\ pos[2] = <<2, 0>>}

Init == InitWith(LevelGrids, LevelStarts, {MaxAP}, {nil})

\* A level of any terrain pattern with the entities anywhere, to query its graph.
InitGraph == InitWith(AllGrids, [Ents -> Cells], {MaxAP}, {nil})

\* A level in the middle of a round, to plan a move on: the first entity in
\* the column x = 0, the other anywhere, with any action points left.
MoveStarts == {pos \in [Ents -> Cells] : pos[1][1] = 0}

InitMove == InitWith(MoveGrids, MoveStarts, 0 .. MaxAP, {nil})

\* ------------------------------------------------------------------ actions
Apply(L) ==
  /\ highlight' = L.highlight
  /\ cached' = L.cached
  /\ entities' = L.entities
  /\ selected' = L.selected
  /\ command' = L.command
  /\ reachable' = L.reachable
  /\ in_range' = L.in_range
  /\ action' = L.action
  /\ UNCHANGED <<grid, query, nodes>>

DamageResults ==
  {[Connect |-> Miss, Piercing |-> 0]} \cup
  {[Connect |-> Hit, Piercing |-> p] : p \in 0 .. MaxDamage}

\* The cells DoMove is asked for: every cell of the board, and two cells
\* beside it (int(bx) of a click that misses the board).
MoveTargets == Cells \cup {<<GridDx, 0>>, <<-1, 0>>}

\* The clicks: the middle of every cell, and a point beside the board.
ClickPoints ==
  {<<2 * c[1] + 1, 2 * c[2] + 1>> : c \in Cells} \cup {<<2 * GridDx + 1, 1>>}

CallPrepMove == Apply(PrepMove(Cur, unitGraph(Cur)))

CallPrepAttack == Apply(PrepAttack(Cur))

CallDoMove ==
  \E graph \in {unitGraph(Cur)} :
    \E c \in MoveTargets :
      Apply(DoMove(Cur, graph, c[1], c[2]))

CallDoAttack ==
  \E t \in Ents, res \in DamageResults :
    Apply(DoAttack(Cur, t, res))

CallThink ==
  \E dt \in {0, 1} :
    Apply(Think(Cur, dt))

CallHandleEventGroup ==
  \E graph \in {unitGraph(Cur)} :
    \E c \in ClickPoints :
      \E res \in IF command = Attack THEN DamageResults
                 ELSE {[Connect |-> Miss, Piercing |-> 0]} :
        Apply(HandleEventGroup(Cur, graph, c[1], c[2], res))

\* A call of Adjacent(v) on the graph of mover m (unitGraph{l, Move_cost of
\* m}).  The call leaves the level as it is, so the first call of a behaviour
\* already reaches every result.
CallAdjacent ==
  \E m \in Ents, v \in Vertices :
    /\ query = NoQuery
    /\ \E r \in {Adjacent(Bases[m].move_cost, v)} :
         query' = [mover |-> m, v |-> v,
                   adj |-> [i \in 1 .. Len(r) |-> r[i][1]],
                   weight2 |-> [i \in 1 .. Len(r) |-> r[i][2]]]
    /\ UNCHANGED <<grid, highlight, cached, entities, selected, command,
                   reachable, in_range, action, nodes>>

Next ==
  \/ CallPrepMove
  \/ CallPrepAttack
  \/ CallDoMove
  \/ CallDoAttack
  \/ CallThink
  \/ CallHandleEventGroup

Spec == Init /\ [][Next]_vars

NextMove ==
  \/ CallHandleEventGroup
  \/ CallPrepMove
  \/ CallDoMove

SpecMove == InitMove /\ [][NextMove]_vars

\* A level in the middle of a round with the entities anywhere, to attack on.
InitAttack == InitWith(LevelGrids, [Ents -> Cells], 0 .. MaxAP, {nil})

NextAttack ==
  \/ CallHandleEventGroup
  \/ CallPrepAttack
  \/ CallDoAttack

SpecAttack == InitAttack /\ [][NextAttack]_vars

\* A game with a basic attack at hand: the first entity beside the second or
\* two cells from it, and either entity's attack.
ActionStarts ==
  {pos \in [Ents -> Cells] : pos[1] = <<1, 0>> /\ pos[2] \in {<<2, 0>>, <<1, 2>>}}

InitAction ==
  /\ InitLevel(LevelGrids, ActionStarts, {MaxAP}, {nil})
  /\ action \in {NewAction(c) : c \in BasicAttacks}

CallPrep == Apply(Prep(Cur))

CallCancel == Apply(Cancel(Cur))

CallMouseClick ==
  \E c \in ClickPoints :
    Apply(MouseClick(Cur, c[1], c[2]))

CallAiDoAttack ==
  \E mark \in Ents \ {action.Ent} :
    Apply(aiDoAttack(Cur, mark))

CallMaintain ==
  \E sum \in DiceSums :
    Apply(Maintain(Cur, sum))

NextAction ==
  \/ CallPrep
  \/ CallCancel
  \/ CallMouseClick
  \/ CallAiDoAttack
  \/ CallMaintain
  \/ CallHandleEventGroup
  \/ CallDoAttack

SpecAction == InitAction /\ [][NextAction]_vars

\* A round of the game from its start: every operation that plans or commits
\* a move or an attack, with either entity's basic attack at hand.
InitRound ==
  /\ InitLevel(LevelGrids, LevelStarts, {MaxAP}, {nil})
  /\ action \in {NewAction(c) : c \in BasicAttacks}

NextRound ==
  \/ CallPrepMove
  \/ CallDoMove
  \/ CallPrepAttack
  \/ CallDoAttack
  \/ CallHandleEventGroup
  \/ CallPrep
  \/ CallCancel
  \/ CallMouseClick
  \/ CallAiDoAttack
  \/ CallMaintain

SpecRound == InitRound /\ [][NextRound]_vars

\* A click far from the board, three cells or more from every entity.
FarClicks == {<<2 * (GridDx + 3) + 1, 1>>}

CallClickAway ==
  \E graph \in {unitGraph(Cur)} :
    \E c \in FarClicks :
      Apply(HandleEventGroup(Cur, graph, c[1], c[2], [Connect |-> Miss, Piercing |-> 0]))

\* The game with clicks that are near no entity as well.
NextIdle ==
  \/ CallPrepMove
  \/ CallPrepAttack
  \/ CallDoMove
  \/ CallDoAttack
  \/ CallThink
  \/ CallHandleEventGroup
  \/ CallClickAway

SpecIdle == Init /\ [][NextIdle]_vars

CallClearCache == Apply(clearCache(Cur))

\* The game with clearCache as an operation of its own.
NextCache ==
  \/ CallPrepMove
  \/ CallPrepAttack
  \/ CallDoMove
  \/ CallDoAttack
  \/ CallThink
  \/ CallHandleEventGroup
  \/ CallClearCache

SpecCache == Init /\ [][NextCache]_vars

\* The gui's focus, from the empty Focus on.
LevelVars == <<grid, highlight, cached, entities, selected, command, reachable,
               in_range, query, action>>

CallTake ==
  \E n \in Nodes :
    /\ nodes' = Take(nodes, n)
    /\ UNCHANGED LevelVars

CallPush ==
  \E n \in Nodes :
    /\ Len(nodes) < MaxDepth
    /\ nodes' = Push(nodes, n)
    /\ UNCHANGED LevelVars

CallPop ==
  /\ Len(nodes) > 0
  /\ nodes' = Pop(nodes)
  /\ UNCHANGED LevelVars

CallNodeThink ==
  \E wants \in [Nodes -> BOOLEAN] :
    /\ nodes' = think(nodes, wants)
    /\ UNCHANGED LevelVars

NextFocus ==
  \/ CallTake
  \/ CallPush
  \/ CallPop
  \/ CallNodeThink

SpecFocus == Init /\ [][NextFocus]_vars

NextGraph == CallAdjacent

SpecGraph == InitGraph /\ [][NextGraph]_vars

\* ================================================================== claims
\* What the claims say, stated over cells rather than over the code's vertex
\* arithmetic.

\* The cells around cell c, on the board.
Around(c) == {d \in Cells : d # c /\ maxNormi(c[1], c[2], d[1], d[2]) = 1}

IsDiagonal(c, d) == c[1] # d[1] /\ c[2] # d[2]

Passable(mc, c) == grid[c[1]][c[2]] \in DOMAIN mc

CostOf(mc, c) == mc[grid[c[1]][c[2]]]

\* The two cells orthogonally adjacent to both ends of a diagonal step.
CornerA(c, d) == <<c[1], d[2]>>

CornerB(c, d) == <<d[1], c[2]>>

\* The step from c to d has no edge for this mover.
EdgeExcluded(mc, c, d) ==
  \/ ~Passable(mc, d)
  \/ IsDiagonal(c, d) /\ (~Passable(mc, CornerA(c, d)) \/ ~Passable(mc, CornerB(c, d)))

\* Twice the weight the claims give the step from c to d.
EdgeWeight2(mc, c, d) ==
  IF IsDiagonal(c, d)
    THEN Max(CostOf(mc, CornerA(c, d)) + CostOf(mc, CornerB(c, d)), 2 * CostOf(mc, d))
    ELSE 2 * CostOf(mc, d)

EntityAt(c) == \E i \in Ents : entities[i].pos = c

Asked == query # NoQuery

QueryCost == Bases[query.mover].move_cost

QueryCell == fromVertex(query.v)

QueryIndex(d) == {i \in 1 .. Len(query.adj) : query.adj[i] = toVertex(d[1], d[2])}

\* C1: for the cell a query asks about, every cell around it on the board
\* and the mover's cost table, costToMove gives an orthogonal step the cost of
\* the destination's terrain and a diagonal step
\* max((cost(cornerA) + cost(cornerB)) / 2, cost(dst)), and no edge when the
\* destination, or for a diagonal step either corner, has no cost for the
\* mover; Adjacent reports these weights and leaves the excluded steps out.
C1_EdgeWeight ==
  Asked =>
    \A d \in Around(QueryCell) :
      /\ \A w2 \in {costToMove2(QueryCost, query.v, toVertex(d[1], d[2]))} :
           IF EdgeExcluded(QueryCost, QueryCell, d)
             THEN w2 < 0
             ELSE w2 = EdgeWeight2(QueryCost, QueryCell, d)
      /\ EdgeExcluded(QueryCost, QueryCell, d) => QueryIndex(d) = {}
      /\ \A i \in QueryIndex(d) : query.weight2[i] = EdgeWeight2(QueryCost, QueryCell, d)

\* A query that returns a diagonal step of half-integer weight (the corners'
\* average) and leaves out a diagonal step to a passable cell past a corner
\* without cost.
C1_Witness ==
  /\ Asked
  /\ \E d \in Around(QueryCell) :
       /\ IsDiagonal(QueryCell, d)
       /\ \E i \in QueryIndex(d) : query.weight2[i] % 2 = 1
  /\ \E d \in Around(QueryCell) :
       /\ IsDiagonal(QueryCell, d)
       /\ Passable(QueryCost, d) /\ ~EntityAt(d)
       /\ EdgeExcluded(QueryCost, QueryCell, d)
       /\ QueryIndex(d) = {}

\* C2: Adjacent(v) returns exactly the cells around v on the board that no
\* entity occupies and whose edge is not excluded, each once and never v
\* itself; an entity on a corner cell removes no diagonal neighbour.
C2_AdjacentExact ==
  Asked =>
    /\ Range(query.adj) =
         {toVertex(d[1], d[2]) : d \in {e \in Around(QueryCell) :
             ~EntityAt(e) /\ ~EdgeExcluded(QueryCost, QueryCell, e)}}
    /\ Cardinality(Range(query.adj)) = Len(query.adj)
    /\ query.v \notin Range(query.adj)

\* A query that leaves out an occupied cell and returns a diagonal neighbour
\* one of whose corners is occupied.
C2_Witness ==
  /\ Asked
  /\ \E d \in Around(QueryCell) :
       EntityAt(d) /\ ~EdgeExcluded(QueryCost, QueryCell, d) /\ QueryIndex(d) = {}
  /\ \E d \in Around(QueryCell) :
       /\ IsDiagonal(QueryCell, d)
       /\ EntityAt(CornerA(QueryCell, d)) \/ EntityAt(CornerB(QueryCell, d))
       /\ QueryIndex(d) # {}

\* C3: in the sequence Adjacent(v) returns every orthogonal neighbour comes
\* before every diagonal one, and weight[i] is the weight of the edge from v
\* to adj[i].
C3_OrthogonalFirst ==
  Asked =>
    /\ Len(query.weight2) = Len(query.adj)
    /\ \A i, j \in 1 .. Len(query.adj) :
         (IsDiagonal(QueryCell, fromVertex(query.adj[i]))
            /\ ~IsDiagonal(QueryCell, fromVertex(query.adj[j]))) => j < i
    /\ \A i \in 1 .. Len(query.adj) :
         query.weight2[i] = costToMove2(QueryCost, query.v, query.adj[i])

\* A query that returns orthogonal and diagonal neighbours of different weights.
C3_Witness ==
  /\ Asked
  /\ \E i, j \in 1 .. Len(query.adj) :
       /\ ~IsDiagonal(QueryCell, fromVertex(query.adj[i]))
       /\ IsDiagonal(QueryCell, fromVertex(query.adj[j]))
       /\ query.weight2[i] # query.weight2[j]
  /\ Cardinality({query.weight2[i] : i \in 1 .. Len(query.weight2)}) >= 3

\* ------------------------------------------------------ true path costs
Min(S) == CHOOSE a \in S : \A b \in S : a <= b

\* Twice the weight of the step from cell c to cell d for a mover with cost
\* table mc under the current placement of the entities; Infinity2 when
\* there is no such step.
StepWeight2(mc, c, d) ==
  IF c # d /\ maxNormi(c[1], c[2], d[1], d[2]) = 1
       /\ ~EntityAt(d) /\ ~EdgeExcluded(mc, c, d)
    THEN EdgeWeight2(mc, c, d)
    ELSE Infinity2

\* One round of relaxation of the doubled costs d (that of vertex v at index
\* v + 1): every vertex takes the cheapest of its cost and a step from another.
RelaxAll(mc, d) ==
  SubSeq([i \in 1 .. NumVertex |->
            Min({d[i]} \cup
                {d[j] + StepWeight2(mc, fromVertex(j - 1), fromVertex(i - 1)) :
                   j \in {n \in 1 .. NumVertex : d[n] < Infinity2}})],
         1, NumVertex)

RECURSIVE Settle(_, _)
Settle(mc, d) ==
  CHOOSE r \in {IF n = d THEN d ELSE Settle(mc, n) : n \in {RelaxAll(mc, d)}} : TRUE

\* The true minimum doubled path cost from vertex src to every vertex:
\* relaxation from "src costs 0" until nothing gets cheaper (a cost of
\* Infinity2 or more means out of reach).
TrueCost2(mc, src) ==
  Settle(mc, SubSeq([i \in 1 .. NumVertex |-> IF i = src + 1 THEN 0 ELSE Infinity2],
                    1, NumVertex))

Sel == entities[selected]

SelVertex == toVertex(Sel.pos[1], Sel.pos[2])

\* The doubled cost of walking the cells of path from cell c, step by step;
\* Infinity2 or more when some step is no step of the graph.
RECURSIVE PathCost2(_, _, _)
PathCost2(mc, c, path) ==
  IF path = <<>> THEN 0
  ELSE StepWeight2(mc, c, Head(path)) + PathCost2(mc, Head(path), Tail(path))

\* C4: after PrepMove with an entity selected, reachable lists exactly the
\* cells whose true minimum path cost from the entity's cell is at most its
\* AP, the entity's own cell among them, and lists none twice; the command
\* is then Move.
C4_ReachableExact ==
  selected # nil =>
    \A L2 \in {PrepMove(Cur, unitGraph(Cur))} :
      \A cost \in {TrueCost2(Sel.move_cost, SelVertex)} :
        /\ Range(L2.reachable) = {v \in Vertices : cost[v + 1] <= 2 * Sel.AP}
        /\ SelVertex \in Range(L2.reachable)
        /\ Cardinality(Range(L2.reachable)) = Len(L2.reachable)
        /\ L2.command = Move

\* On the all-grass board PrepMove has run for a mover at (0, 0) with AP 2:
\* reachable holds every cell but the one the other entity stands on.
C4_Witness ==
  /\ selected # nil
  /\ command = Move
  /\ \A c \in Cells : grid[c[1]][c[2]] = "Grass"
  /\ Sel.pos = <<0, 0>> /\ Sel.AP = 2
  /\ Range(reachable) = {toVertex(c[1], c[2]) : c \in {d \in Cells : d = Sel.pos \/ ~EntityAt(d)}}
  /\ Len(reachable) = NumVertex - 1

\* C5 (as claimed): DoMove(x, y) replaces the selected entity's path queue
\* only when (x, y) can be reached at a true cost of at most the entity's AP,
\* and then with a cheapest path to (x, y) without its start; otherwise the
\* path queue, the command and reachable stay as they are.
C5_DoMoveWithinAP ==
  selected # nil =>
    \A graph \in {unitGraph(Cur)} :
      \A cost \in {TrueCost2(Sel.move_cost, SelVertex)} :
        \A c \in Cells :
          \A L2 \in {DoMove(Cur, graph, c[1], c[2])} :
            IF cost[toVertex(c[1], c[2]) + 1] <= 2 * Sel.AP
              THEN /\ PathCost2(Sel.move_cost, Sel.pos, L2.entities[selected].path) =
                        cost[toVertex(c[1], c[2]) + 1]
                   /\ c # Sel.pos => /\ L2.entities[selected].path # <<>>
                                     /\ L2.entities[selected].path[Len(L2.entities[selected].path)] = c
                   /\ c = Sel.pos => L2.entities[selected].path = <<>>
              ELSE /\ L2.entities = entities
                   /\ L2.command = command
                   /\ L2.reachable = reachable

\* C6: PrepMove and DoMove change no entity's action points, position or
\* health; they change nothing of an entity that is not selected, and they
\* change neither the selection nor in_range, and send no sprite command.
C6_MoveFrame ==
  \A graph \in {unitGraph(Cur)} :
    \A L2 \in {PrepMove(Cur, graph)} \cup {DoMove(Cur, graph, c[1], c[2]) : c \in MoveTargets} :
      /\ \A i \in Ents :
           /\ L2.entities[i].AP = entities[i].AP
           /\ L2.entities[i].pos = entities[i].pos
           /\ L2.entities[i].Health = entities[i].Health
           /\ i # selected => L2.entities[i] = entities[i]
      /\ L2.selected = selected
      /\ L2.in_range = in_range
      /\ L2.sent = <<>>

\* DoMove has committed a move of two cells or more: the selected entity has
\* the path queued, stands where it stood and has all its action points.
C6_Witness ==
  /\ selected # nil
  /\ Len(Sel.path) >= 2
  /\ command = NoCommand
  /\ Sel.AP = MaxAP
  /\ Sel.Health = MaxHealth

\* ------------------------------------------------------ command and sets
\* C7 (as claimed): in every reachable state, command = Move implies that
\* reachable is not empty and command = Attack implies that in_range is not
\* empty.
C7_CommandHasCandidates ==
  /\ command = Move => reachable # <<>>
  /\ command = Attack => in_range # <<>>

\* The highlight a cell is to have under the command and the sets of L.
HighlightOf(L, v) ==
  IF L.command = Move /\ v \in Range(L.reachable) THEN Reachable
  ELSE IF L.command = Attack /\ v \in Range(L.in_range) THEN Attackable
  ELSE None

\* C8 (as claimed): after every Think, a cell's stored highlight is Reachable
\* exactly when command = Move and the cell is in reachable, Attackable
\* exactly when command = Attack and the cell is in in_range, and None
\* otherwise.
C8_NoStaleHighlight ==
  \A dt \in {0, 1} :
    \A L2 \in {Think(Cur, dt)} :
      \A c \in Cells :
        L2.highlight[c[1]][c[2]] = HighlightOf(L2, toVertex(c[1], c[2]))

\* C9 (as claimed): whenever command = Attack, every cell of in_range is the
\* current cell of an entity other than the selected one within the reach of
\* the selected entity's weapon from its current cell; whenever command =
\* Move, every cell of reachable can be reached from the selected entity's
\* current cell within its AP under the current placement of the entities.
C9_CandidatesCurrent ==
  /\ command = Attack =>
       /\ selected # nil
       /\ \A v \in Range(in_range) :
            \E i \in Ents \ {selected} :
              /\ entities[i].pos = fromVertex(v)
              /\ maxNormi(entities[i].pos[1], entities[i].pos[2], Sel.pos[1], Sel.pos[2])
                   <= Sel.weapon.reach
  /\ command = Move =>
       /\ selected # nil
       /\ \A cost \in {TrueCost2(Sel.move_cost, SelVertex)} :
            \A v \in Range(reachable) : cost[v + 1] <= 2 * Sel.AP

\* DoAttack(target) cannot be carried out: nothing is selected, the weapon
\* costs more than the selected entity's AP, or the target is beyond reach.
CannotAttack(target) ==
  \/ selected = nil
  \/ /\ selected # nil
     /\ \/ Sel.weapon.cost > Sel.AP
        \/ maxNormi(entities[target].pos[1], entities[target].pos[2],
                    Sel.pos[1], Sel.pos[2]) > Sel.weapon.reach

\* C10 (as claimed): a DoAttack that cannot be carried out changes no
\* entity's AP, health or position, sends no sprite command and leaves the
\* command, reachable and in_range as they are.
C10_FailedAttackNoEffect ==
  \A target \in Ents : \A res \in DamageResults :
    CannotAttack(target) =>
      \A L2 \in {DoAttack(Cur, target, res)} :
        /\ \A i \in Ents :
             /\ L2.entities[i].AP = entities[i].AP
             /\ L2.entities[i].Health = entities[i].Health
             /\ L2.entities[i].pos = entities[i].pos
        /\ L2.sent = <<>>
        /\ L2.command = command
        /\ L2.reachable = reachable
        /\ L2.in_range = in_range

\* ----------------------------------------------------------- failed preps
\* PrepAttack cannot succeed: nothing is selected, the weapon costs more than
\* the selected entity's AP, or no other entity is within the weapon's reach.
PrepAttackFails ==
  \/ selected = nil
  \/ /\ selected # nil
     /\ \/ Sel.weapon.cost > Sel.AP
        \/ \A i \in Ents \ {selected} :
             maxNormi(entities[i].pos[1], entities[i].pos[2], Sel.pos[1], Sel.pos[2])
               > Sel.weapon.reach

\* C11 (as claimed): a PrepAttack that fails leaves command, in_range,
\* reachable, the cached flag and every cell's highlight as they were.
C11_FailedPrepAttackNoEffect ==
  PrepAttackFails =>
    \A L2 \in {PrepAttack(Cur)} :
      /\ L2.command = command
      /\ L2.in_range = in_range
      /\ L2.reachable = reachable
      /\ L2.cached = cached
      /\ L2.highlight = highlight

\* ------------------------------------------------------ ActionBasicAttack
\* The entity the action is bound to.
Actor == entities[action.Ent]

\* The entities other than the action's within its Range.
WithinRange ==
  {i \in Ents \ {action.Ent} :
     maxNormi(entities[i].pos[1], entities[i].pos[2], Actor.pos[1], Actor.pos[2])
       <= action.Range}

\* The highlight h carries the Attackable flag.
HasAttackable(h) == h \in {Attackable, "Reachable|Attackable"}

\* C12: Prep returns true exactly when the acting entity's AP is at least
\* Cost and some other entity is within Range; then targets are the entities
\* within Range and the cell of each carries the Attackable highlight;
\* when it returns false no highlight is changed; it never spends AP.
C12_PrepExact ==
  \A L2 \in {Prep(Cur)} :
    /\ L2.ret = (Actor.AP >= action.Cost /\ WithinRange # {})
    /\ L2.ret = TRUE =>
         /\ Range(L2.action.targets) = WithinRange
         /\ \A i \in WithinRange :
              HasAttackable(L2.highlight[entities[i].pos[1]][entities[i].pos[2]])
    /\ L2.ret = FALSE => L2.highlight = highlight
    /\ L2.entities = entities

\* Prep has succeeded: the action has a target, whose cell is Attackable,
\* and the acting entity has the AP it had.
C12_Witness ==
  /\ action.targets # <<>>
  /\ action.mark = nil
  /\ \A k \in 1 .. Len(action.targets) :
       highlight[entities[action.targets[k]].pos[1]][entities[action.targets[k]].pos[2]]
         = Attackable
  /\ Actor.AP = MaxAP

\* The targets of the action that stand on the cell of a click at
\* (bx2 / 2, by2 / 2).
ClickedTargets(bx2, by2) ==
  {i \in Range(action.targets) : entities[i].pos = <<truncHalf(bx2), truncHalf(by2)>>}

\* C13: MouseClick returns StandardAction exactly when the clicked cell is
\* the current cell of an entity in targets, and then mark is that entity;
\* otherwise it returns NoAction and leaves the mark as it is; in both cases
\* targets, the entities (their AP) and the highlights stay as they are.
C13_MouseClickExact ==
  \A c \in ClickPoints :
    \A L2 \in {MouseClick(Cur, c[1], c[2])} :
      /\ IF ClickedTargets(c[1], c[2]) # {}
           THEN /\ L2.ret = StandardAction
                /\ L2.action.mark \in ClickedTargets(c[1], c[2])
           ELSE /\ L2.ret = NoAction
                /\ L2.action.mark = action.mark
      /\ L2.action.targets = action.targets
      /\ L2.entities = entities
      /\ L2.highlight = highlight

\* A click has committed the attack: the mark is one of the targets.
C13_Witness ==
  /\ action.mark # nil
  /\ action.mark \in Range(action.targets)
  /\ Actor.AP = MaxAP

\* The action is committed and can be paid for.
Committed == action.mark # nil /\ Actor.AP >= action.Cost

\* The signals that close the resolution of an attack.
Outcomes == {"undamaged", "damaged", "killed"}

\* C14: Maintain always returns Complete.  The Maintain of a committed
\* attack spends Cost, sends the animation cue to the attacker, defend and
\* exactly one of undamaged, damaged, killed to the mark, and clears mark and
\* targets; a further Maintain, whatever it rolls, spends no AP, changes no
\* entity and sends nothing.
C14_ResolvesOnce ==
  \A sum \in DiceSums :
    \A L2 \in {Maintain(Cur, sum)} :
      /\ L2.ret = Complete
      /\ Committed =>
           /\ L2.entities[action.Ent].AP = Actor.AP - action.Cost
           /\ Len(L2.sent) = 3
           /\ L2.sent[1] = <<action.Ent, IF action.Melee # 0 THEN "melee" ELSE "ranged">>
           /\ L2.sent[2] = <<action.mark, "defend">>
           /\ L2.sent[3][1] = action.mark /\ L2.sent[3][2] \in Outcomes
           /\ L2.action.mark = nil
           /\ L2.action.targets = <<>>
           /\ \A sum2 \in DiceSums :
                \A L3 \in {Maintain([L2 EXCEPT !.sent = <<>>], sum2)} :
                  /\ L3.ret = Complete
                  /\ L3.entities = L2.entities
                  /\ L3.sent = <<>>

\* An attack has been resolved by Maintain (nothing is selected, so no
\* Level.DoAttack has run): the acting entity has paid Cost, the other entity
\* has lost health, and mark and targets are cleared.
C14_Witness ==
  /\ selected = nil
  /\ Actor.AP = MaxAP - action.Cost
  /\ \E i \in Ents \ {action.Ent} : entities[i].Health < MaxHealth
  /\ action.mark = nil
  /\ action.targets = <<>>

\* C15: when the action has no mark, or the acting entity's AP is below
\* Cost, Maintain changes no entity (no AP, no health), sends nothing,
\* clears mark and targets and returns Complete.
C15_SelfCancel ==
  (action.mark = nil \/ Actor.AP < action.Cost) =>
    \A sum \in DiceSums :
      \A L2 \in {Maintain(Cur, sum)} :
        /\ L2.ret = Complete
        /\ L2.entities = entities
        /\ L2.sent = <<>>
        /\ L2.action.mark = nil
        /\ L2.action.targets = <<>>

\* The action is committed and the acting entity's AP has dropped below Cost
\* since.
C15_Witness ==
  /\ action.mark # nil
  /\ Actor.AP < action.Cost
  /\ action.targets # <<>>

\* The marked target is no valid target any more: it is dead, or beyond the
\* action's Range.
MarkInvalid ==
  /\ action.mark # nil
  /\ \/ entities[action.mark].Health <= 0
     \/ action.mark \notin WithinRange

\* C16 (as claimed): when the marked target is dead or out of Range at the
\* time of Maintain, Maintain returns Complete without spending the
\* attacker's AP, without changing the target's health and without sending
\* damaged or killed.
C16_InvalidTargetNoOp ==
  MarkInvalid =>
    \A sum \in DiceSums :
      \A L2 \in {Maintain(Cur, sum)} :
        /\ L2.ret = Complete
        /\ L2.entities[action.Ent].AP = Actor.AP
        /\ L2.entities[action.mark].Health = entities[action.mark].Health
        /\ \A k \in 1 .. Len(L2.sent) : L2.sent[k][2] \notin {"damaged", "killed"}

\* ------------------------------------------------------------ action points
\* C17: no step of the game (PrepMove, DoMove, PrepAttack, DoAttack, a
\* click, the action's Prep, MouseClick, aiDoAttack, Maintain and Cancel)
\* makes an entity's AP negative or raises it.
C17_ApMonotone ==
  [][\A i \in Ents : entities'[i].AP <= entities[i].AP /\ entities'[i].AP >= 0]_vars

\* Both entities have spent all their action points.
C17_Witness ==
  \A i \in Ents : entities[i].AP = 0

\* ------------------------------------------------------------------ damage
\* The offset the claims give a roll of sum: (sum - 2) / 3 - 4 rounded down,
\* a number in -3 .. 3.
RollOffset(sum) ==
  CHOOSE k \in -3 .. 3 : 3 * (k + 4) <= sum - 2 /\ sum - 2 < 3 * (k + 5)

\* Power + the attacker's attack stat - the mark's defense.
BaseDamage == action.Power + Stats[action.Ent].attack - Stats[action.mark].defense

\* C18: every roll of 5d5 gives an offset in -3 .. 3, and each of these
\* comes from some roll; a committed attack lowers the mark's health by
\* exactly max(0, Power + attack stat + offset - defense); against a defense
\* of at least Power + attack stat + 3 it sends undamaged and leaves the
\* health as it is.
C18_DamageFormula ==
  /\ {diceOffset(sum) : sum \in DiceSums} = -3 .. 3
  /\ Committed =>
       \A sum \in DiceSums :
         \A L2 \in {Maintain(Cur, sum)} :
           /\ diceOffset(sum) = RollOffset(sum)
           /\ L2.entities[action.mark].Health =
                entities[action.mark].Health - Max(0, BaseDamage + RollOffset(sum))
           /\ BaseDamage + 3 <= 0 =>
                /\ L2.sent[Len(L2.sent)] = <<action.mark, "undamaged">>
                /\ L2.entities[action.mark].Health = entities[action.mark].Health

\* An attack is committed against a target whose defense is at least
\* Power + attack stat + 3.
C18_Witness ==
  /\ Committed
  /\ BaseDamage + 3 <= 0
  /\ action.targets # <<>>

\* The outcome signals among the sprite commands sent.
OutcomesSent(sent) == {k \in 1 .. Len(sent) : sent[k][2] \in Outcomes}

\* What C19 says of a resolved attack on target that sent the commands sent
\* and left the entities es, when applied tells whether damage was applied.
OutcomeRight(es, sent, target, applied) ==
  /\ Cardinality(OutcomesSent(sent)) = 1
  /\ \A k \in OutcomesSent(sent) :
       /\ sent[k][1] = target
       /\ (applied /\ es[target].Health <= 0) => sent[k][2] = "killed"
       /\ sent[k][2] = "damaged" => (applied /\ es[target].Health > 0)
       /\ sent[k][2] = "killed" => (applied /\ es[target].Health <= 0)

\* C19: an attack resolved by Maintain or by Level.DoAttack sends the target
\* exactly one of undamaged, damaged, killed: killed when damage was applied
\* and left its health at 0 or below, damaged only when damage was applied
\* and its health is still above 0.
C19_KilledNotDamaged ==
  /\ Committed =>
       \A sum \in DiceSums :
         \A L2 \in {Maintain(Cur, sum)} :
           OutcomeRight(L2.entities, L2.sent, action.mark, BaseDamage + RollOffset(sum) > 0)
  /\ \A target \in Ents : \A res \in DamageResults :
       (selected # nil /\ ~CannotAttack(target)) =>
         \A L2 \in {DoAttack(Cur, target, res)} :
           OutcomeRight(L2.entities, L2.sent, target, res.Connect = Hit)

\* An attack by Maintain (nothing is selected) has killed an entity.
C19_Witness ==
  /\ selected = nil
  /\ \E i \in Ents : entities[i].Health <= 0
  /\ action.mark = nil

\* ------------------------------------------------------------------ Cancel
\* C20: Cancel, in any state of the action, leaves no mark, no targets and
\* no cell with the Attackable highlight, changes no entity, and a second
\* Cancel changes nothing more.
C20_CancelIdempotent ==
  \A L2 \in {Cancel(Cur)} :
    /\ L2.action.mark = nil
    /\ L2.action.targets = <<>>
    /\ \A c \in Cells : ~HasAttackable(L2.highlight[c[1]][c[2]])
    /\ L2.entities = entities
    /\ Cancel(L2) = L2

\* The action is committed, with a cell marked Attackable, while an entity
\* is selected on the level.
C20_Witness ==
  /\ action.mark # nil
  /\ selected # nil
  /\ \E c \in Cells : highlight[c[1]][c[2]] = Attackable

\* -------------------------------------------------------------- aiDoAttack
\* The distance from the acting entity to entity m.
DistTo(m) ==
  maxNormi(entities[m].pos[1], entities[m].pos[2], Actor.pos[1], Actor.pos[2])

\* C21: aiDoAttack(mark) returns true exactly when the distance from the
\* acting entity to mark is at most Range and the acting entity's AP is at
\* least Cost; then mark is the chosen target and the next Maintain spends
\* Cost and sends defend to it; when it returns false the action (its mark
\* and targets) is as before; in both cases the entities (their AP) and the
\* highlights are as before.
C21_AiDoAttackExact ==
  \A m \in Ents :
    \A L2 \in {aiDoAttack(Cur, m)} :
      /\ L2.ret = (DistTo(m) <= action.Range /\ Actor.AP >= action.Cost)
      /\ L2.ret = TRUE =>
           /\ L2.action = [action EXCEPT !.mark = m]
           /\ \A sum \in DiceSums :
                \A L3 \in {Maintain(L2, sum)} :
                  /\ Len(L3.sent) = 3
                  /\ L3.sent[2] = <<m, "defend">>
                  /\ m # action.Ent => L3.entities[action.Ent].AP = Actor.AP - action.Cost
      /\ L2.ret = FALSE => L2.action = action
      /\ L2.entities = entities
      /\ L2.highlight = highlight
      /\ L2.sent = <<>>

\* aiDoAttack has chosen a target of an action that was never prepared.
C21_Witness ==
  /\ action.mark # nil
  /\ action.targets = <<>>
  /\ DistTo(action.mark) <= action.Range
  /\ Actor.AP >= action.Cost

\* ------------------------------------------------------- nothing selected
\* C22: in every reachable state with nothing selected the command is
\* NoCommand, and a step taken with nothing selected (a click, PrepMove,
\* PrepAttack, DoMove, DoAttack, a Think tick) leaves the command NoCommand
\* and every entity's AP, health and path queue as they are.
C22_IdleNoCommand ==
  /\ [](selected = nil => command = NoCommand)
  /\ [][selected = nil =>
         /\ command' = NoCommand
         /\ \A i \in Ents :
              /\ entities'[i].AP = entities[i].AP
              /\ entities'[i].Health = entities[i].Health
              /\ entities'[i].path = entities[i].path]_vars

\* Nothing is selected after a Think tick.
C22_Witness ==
  /\ selected = nil
  /\ cached

\* ------------------------------------------------------------------- Focus
\* C23: the Focus is a stack of focus holders: after Take(n) and after
\* Push(n) the node top() reports is n; Take leaves the depth as it is (an
\* empty stack gets depth 1); after Push(n) and the matching Pop, top() is
\* the node that had the focus before the Push.
C23_FocusStack ==
  \A n \in Nodes :
    /\ top(Take(nodes, n)) = n
    /\ top(Push(nodes, n)) = n
    /\ Len(Take(nodes, n)) = Max(1, Len(nodes))
    /\ top(Pop(Push(nodes, n))) = top(nodes)

\* ----------------------------------------------------------- attack targets
\* The signals of a resolved attack that go to the one attacked.
CombatSignals == {"defend"} \cup Outcomes

\* The entities a step from the current level to L2 has attacked: those sent
\* a combat signal and those whose health has gone down.
Attacked(L2) ==
  {L2.sent[k][1] : k \in {j \in 1 .. Len(L2.sent) : L2.sent[j][2] \in CombatSignals}}
    \cup {i \in Ents : L2.entities[i].Health < entities[i].Health}

\* C24: whatever a click resolves, the entities it attacks (sends defend,
\* undamaged, damaged or killed, or takes health from) stand on a cell of
\* in_range, the candidates of the last PrepAttack, and none of them is the
\* selected, attacking entity.
C24_OnlyPreppedTargets ==
  \A graph \in {unitGraph(Cur)} :
    \A c \in ClickPoints : \A res \in DamageResults :
      \A L2 \in {HandleEventGroup(Cur, graph, c[1], c[2], res)} :
        \A i \in Attacked(L2) :
          /\ i # selected
          /\ toVertex(entities[i].pos[1], entities[i].pos[2]) \in Range(in_range)

\* ------------------------------------------------------------------- cache
\* C25: after every complete operation of the Level, cached = false implies
\* that the stored highlight of every cell is None, and no cell's stored
\* highlight is MouseOver.
C25_ClearedWhenNotCached ==
  /\ ~cached => \A c \in Cells : highlight[c[1]][c[2]] = None
  /\ \A c \in Cells : highlight[c[1]][c[2]] # MouseOver

\* The cache is cleared, in the Move command, after a Think tick that moved
\* the first entity (and ended with cached = true).
C25_Witness ==
  /\ ~cached
  /\ command = Move
  /\ \A pos \in LevelStarts : entities[1].pos # pos[1]

====
